---- MODULE Spec2Model ----
(***************************************************************************)
(* The portable fallback engine of concurrencpp's atomic wait/notify       *)
(* (source/threads/atomic_wait.cpp, the #else branch): a table of buckets, *)
(* each a mutex and an intrusive doubly linked list of wait contexts, and  *)
(* the typed atomic_wait / atomic_wait_for loops that call it.             *)
(*                                                                         *)
(* Threads 1..NumWaiters call atomic_wait / atomic_wait_for; a wait        *)
(* context lives on its caller's stack, so the context of thread t is      *)
(* identified with t.  Threads NumWaiters+1..NumWaiters+NumNotifiers call   *)
(* atomic_notify_one / atomic_notify_all.  Stores to the watched words are  *)
(* single atomic steps of the environment.                                 *)
(***************************************************************************)
EXTENDS Integers, Sequences, FiniteSets, TLC

\* ---------------------------------------------------------------- bounds
NumWaiters == 2
NumNotifiers == 1
MaxTime == 1
MaxTimeout == 1
MaxMs == 2500
NumContexts == 3

\* ------------------------------------------------------- program constants
k_wait_table_size == 257
INT_MAX == 2147483647

\* ------------------------------------------------------------ value sets
Null == 0
NoThread == 0
Waiters == 1..NumWaiters
Notifiers == (NumWaiters + 1)..(NumWaiters + NumNotifiers)
\* Three 4-byte aligned words: 4 and 1032 = 4 + 4 * 257 share a bucket, 8 does not.
Addrs == {4, 8, 1032}
Values == {0, 1}
\* The expected value the callers pass (the tests wait on 0).
Expected == {0}

VARIABLES
    mem,         \* mem[a]: the int32 stored at address a
    lock,        \* lock[b]: the thread holding bucket b's mutex, or NoThread
    head,        \* head[b]: first context of bucket b's list, or Null
    next,        \* next[c]: wait_context::next
    prev,        \* prev[c]: wait_context::prev
    pc,          \* pc[t]: where waiter t is
    api,         \* api[t]: "wait" or "wait_for": the typed call in progress
    storage_ptr, \* storage_ptr[t]: the watched address of t's call
    old,         \* old[t]: the expected value of t's call
    val,         \* val[t]: the value t loaded last
    deadline,    \* deadline[t]: atomic_wait_for's deadline
    timeout_ms,  \* timeout_ms[t]: the budget handed to the bounded native wait
    wakeAt,      \* wakeAt[t]: when the bounded condition-variable wait times out
    cause,       \* cause[t]: why the condition-variable wait ended ("stale": a
                 \* notify that found the value still equal to the expected one)
    status,      \* status[t]: what the typed call returned
    now,         \* the clock
    npc,         \* npc[n]: where notifier n is
    nkind,       \* nkind[n]: "one" or "all"
    naddr,       \* naddr[n]: the address notifier n notifies
    futex        \* the last futex system call of the futex build, or NoCall

bucketVars == <<lock, head, next, prev>>
waiterVars == <<pc, api, storage_ptr, old, val, deadline, timeout_ms, wakeAt, cause, status>>
notifierVars == <<npc, nkind, naddr>>
vars == <<mem, bucketVars, waiterVars, notifierVars, now, futex>>

\* std::hash<std::uintptr_t> is the identity in libstdc++ and libc++.
hasher(address) == address

get_bucket_for(p) == hasher(p) % k_wait_table_size

Buckets == {get_bucket_for(a) : a \in Addrs}

\* ------------------------------------------------- the intrusive list
\* A heap is the record [head, next, prev] of the three pointer fields.
Heap == [head |-> head, next |-> next, prev |-> prev]

\* push_front_wait_ctx without its "head = ctx".
push_front_wait_ctx_no_head(H, b, ctx) ==
    [head |-> H.head,
     next |-> [H.next EXCEPT ![ctx] = H.head[b]],
     prev |-> IF H.head[b] # Null
              THEN [H.prev EXCEPT ![H.head[b]] = ctx]
              ELSE H.prev]

push_front_wait_ctx(H, b, ctx) ==
    [head |-> [H.head EXCEPT ![b] = ctx],
     next |-> [H.next EXCEPT ![ctx] = H.head[b]],
     prev |-> IF H.head[b] # Null
              THEN [H.prev EXCEPT ![H.head[b]] = ctx]
              ELSE H.prev]

\* remove_wait_ctx without its "ctx->next->prev = ctx->prev".
remove_wait_ctx_no_prev(H, b, ctx) ==
    [head |-> IF H.head[b] = ctx THEN [H.head EXCEPT ![b] = H.next[ctx]] ELSE H.head,
     next |-> IF H.prev[ctx] # Null
              THEN [H.next EXCEPT ![H.prev[ctx]] = H.next[ctx]]
              ELSE H.next,
     prev |-> H.prev]

\* remove_wait_ctx without its "head = ctx->next".
remove_wait_ctx_keep_head(H, b, ctx) ==
    [head |-> H.head,
     next |-> IF H.prev[ctx] # Null
              THEN [H.next EXCEPT ![H.prev[ctx]] = H.next[ctx]]
              ELSE H.next,
     prev |-> IF H.next[ctx] # Null
              THEN [H.prev EXCEPT ![H.next[ctx]] = H.prev[ctx]]
              ELSE H.prev]

remove_wait_ctx(H, b, ctx) ==
    LET h1 == IF H.head[b] = ctx THEN [H.head EXCEPT ![b] = H.next[ctx]] ELSE H.head
        p1 == IF H.next[ctx] # Null
              THEN [H.prev EXCEPT ![H.next[ctx]] = H.prev[ctx]]
              ELSE H.prev
        n1 == IF H.prev[ctx] # Null
              THEN [H.next EXCEPT ![H.prev[ctx]] = H.next[ctx]]
              ELSE H.next
    IN [head |-> h1, next |-> n1, prev |-> p1]

\* scoped_wait_context's constructor: the fields start null, then the context
\* is pushed to the front of its bucket.
scoped_wait_context(H, b, ctx) ==
    push_front_wait_ctx([H EXCEPT !.next[ctx] = Null, !.prev[ctx] = Null], b, ctx)

\* scoped_wait_context's destructor: the context is removed; the object is
\* gone afterwards, its fields hold nothing.
destroy_wait_context(H, b, ctx) ==
    LET R == remove_wait_ctx(H, b, ctx)
    IN [R EXCEPT !.next[ctx] = Null, !.prev[ctx] = Null]

\* The contexts the loop "for (cursor = head; cursor != nullptr; cursor =
\* cursor->next)" visits, in order; fuel stops a walk of a broken list.
RECURSIVE Walk(_, _, _)
Walk(nxt, cursor, fuel) ==
    IF cursor = Null \/ fuel = 0
    THEN <<>>
    ELSE <<cursor>> \o Walk(nxt, nxt[cursor], fuel - 1)

Cursors(b) == Walk(next, head[b], NumWaiters + 1)

Linked(b) == {Cursors(b)[i] : i \in 1..Len(Cursors(b))}

\* memcmp called with size 0: nothing is compared.
memcmp_size0(x, y) == 0

\* memcmp of the two int32 values: 0 exactly when all four bytes agree.
memcmp(x, y) == IF x = y THEN 0 ELSE IF x < y THEN -1 ELSE 1

\* notify_one's loop without its break.
notify_one_no_break(b, p) ==
    LET cs == Walk(next, head[b], NumWaiters + 1)
    IN {cs[i] : i \in {j \in 1..Len(cs) : storage_ptr[cs[j]] = p}}

\* ------------------------------------------------------------- notify
\* notify_one's loop with the address test negated.
notify_one_other(b, p) ==
    LET cs == Walk(next, head[b], NumWaiters + 1)
        hits == {i \in 1..Len(cs) : storage_ptr[cs[i]] # p}
    IN IF hits = {} THEN {}
       ELSE {cs[CHOOSE i \in hits : \A j \in hits : i <= j]}

\* notify_one's loop: the first context of the list with the address.
notify_one_targets(b, p) ==
    LET cs == Cursors(b)
        hits == {i \in 1..Len(cs) : storage_ptr[cs[i]] = p}
    IN IF hits = {} THEN {}
       ELSE {cs[CHOOSE i \in hits : \A j \in hits : i <= j]}

\* notify_all's loop with notify_one's break.
notify_all_first_only(b, p) == notify_one_targets(b, p)

\* notify_all's loop without the address test.
notify_all_unfiltered(b, p) == Linked(b)

\* notify_all's loop: every context of the list with the address.
notify_all_targets(b, p) ==
    {c \in Linked(b) : storage_ptr[c] = p}

\* ------------------------------------------------------ the futex build
\* futex holds the arguments of the last ::syscall(SYS_futex, addr, op, old,
\* ts, nullptr, 0) together with the native call that made it and the
\* milliseconds that call was given; ts is <<>> for nullptr and <<spec>> for
\* &spec.  NoCall: no system call was made.
NoCall == [call |-> "none", ms |-> 0, addr |-> Null, op |-> "none", old |-> 0,
           ts |-> <<>>]

\* ms_to_time_spec with microseconds for nanoseconds.
ms_to_time_spec_usec(ms) ==
    [tv_sec |-> ms \div 1000, tv_nsec |-> (ms % 1000) * 1000]

\* size_t ms: the inputs of the model stay far below 2^64 (and tv_nsec below
\* 2^31), so no operation of the function wraps.
ms_to_time_spec(ms) ==
    [tv_sec |-> ms \div 1000, tv_nsec |-> (ms % 1000) * 1000000]

TypeOK ==
    /\ mem \in [Addrs -> Values]
    /\ lock \in [Buckets -> {NoThread} \cup Waiters \cup Notifiers]
    /\ head \in [Buckets -> {Null} \cup Waiters]
    /\ next \in [Waiters -> {Null} \cup Waiters]
    /\ prev \in [Waiters -> {Null} \cup Waiters]
    /\ pc \in [Waiters -> {"idle", "load", "clock", "reload", "call", "check",
                           "block", "asleep", "woken", "done"}]
    /\ api \in [Waiters -> {"none", "wait", "wait_for"}]
    /\ storage_ptr \in [Waiters -> {Null} \cup Addrs]
    /\ old \in [Waiters -> Values]
    /\ val \in [Waiters -> Values]
    /\ deadline \in [Waiters -> Nat]
    /\ timeout_ms \in [Waiters -> Nat]
    /\ wakeAt \in [Waiters -> Nat]
    /\ cause \in [Waiters -> {"none", "notify", "stale", "spurious", "timeout",
                            "failed"}]
    /\ status \in [Waiters -> {"none", "returned", "ok", "timeout"}]
    /\ now \in Nat
    /\ npc \in [Notifiers -> {"idle", "scan"}]
    /\ nkind \in [Notifiers -> {"none", "one", "all"}]
    /\ naddr \in [Notifiers -> {Null} \cup Addrs]
    /\ futex = NoCall

Init ==
    /\ mem = [a \in Addrs |-> 0]
    /\ lock = [b \in Buckets |-> NoThread]
    /\ head = [b \in Buckets |-> Null]
    /\ next = [c \in Waiters |-> Null]
    /\ prev = [c \in Waiters |-> Null]
    /\ pc = [t \in Waiters |-> "idle"]
    /\ api = [t \in Waiters |-> "none"]
    /\ storage_ptr = [t \in Waiters |-> Null]
    /\ old = [t \in Waiters |-> 0]
    /\ val = [t \in Waiters |-> 0]
    /\ deadline = [t \in Waiters |-> 0]
    /\ timeout_ms = [t \in Waiters |-> 0]
    /\ wakeAt = [t \in Waiters |-> 0]
    /\ cause = [t \in Waiters |-> "none"]
    /\ status = [t \in Waiters |-> "none"]
    /\ now = 0
    /\ npc = [n \in Notifiers |-> "idle"]
    /\ nkind = [n \in Notifiers |-> "none"]
    /\ naddr = [n \in Notifiers |-> Null]
    /\ futex = NoCall


\* ------------------------------------------------ the typed API's loops
\* The loop's test written with >= for !=.
value_differs_ge(v, expected) == v >= expected

\* The loop's test of a loaded value: the wait is over when it differs.
value_differs(v, expected) == v # expected

\* The deadline test one tick early.
deadline_reached_early(t_now, t_deadline) == t_now + 1 >= t_deadline

\* atomic_wait_for's test of the clock against its deadline.
deadline_reached(t_now, t_deadline) == t_now >= t_deadline

\* atomic_wait(cell, expected, order) is called.
atomic_wait(t, a, o) ==
    /\ pc[t] = "idle"
    /\ pc' = [pc EXCEPT ![t] = "load"]
    /\ api' = [api EXCEPT ![t] = "wait"]
    /\ storage_ptr' = [storage_ptr EXCEPT ![t] = a]
    /\ old' = [old EXCEPT ![t] = o]
    /\ UNCHANGED <<mem, bucketVars, notifierVars, now, val, deadline, timeout_ms,
                   wakeAt, cause, status>>
    /\ UNCHANGED futex

\* atomic_wait_for(cell, expected, timeout, order) is called: the deadline is
\* the clock plus the timeout.
atomic_wait_for(t, a, o, ms) ==
    /\ pc[t] = "idle"
    /\ now + ms <= MaxTime
    /\ pc' = [pc EXCEPT ![t] = "load"]
    /\ api' = [api EXCEPT ![t] = "wait_for"]
    /\ storage_ptr' = [storage_ptr EXCEPT ![t] = a]
    /\ old' = [old EXCEPT ![t] = o]
    /\ deadline' = [deadline EXCEPT ![t] = now + ms]
    /\ UNCHANGED <<mem, bucketVars, notifierVars, now, val, timeout_ms, wakeAt,
                   cause, status>>
    /\ UNCHANGED futex

\* The loop's load of the cell: a differing value ends the call, an equal one
\* goes on to the backend's wait (atomic_wait) or to the clock (atomic_wait_for).
api_load(t) ==
    /\ pc[t] = "load"
    /\ val' = [val EXCEPT ![t] = mem[storage_ptr[t]]]
    /\ IF value_differs(mem[storage_ptr[t]], old[t])
       THEN /\ pc' = [pc EXCEPT ![t] = "done"]
            /\ status' = [status EXCEPT ![t] =
                              IF api[t] = "wait" THEN "returned" ELSE "ok"]
       ELSE /\ pc' = [pc EXCEPT ![t] = IF api[t] = "wait" THEN "call" ELSE "clock"]
            /\ UNCHANGED status
    /\ cause' = [cause EXCEPT ![t] = "none"]
    /\ UNCHANGED <<mem, bucketVars, notifierVars, now, api, storage_ptr, old,
                   deadline, timeout_ms, wakeAt>>
    /\ UNCHANGED futex

\* atomic_wait_for reads the clock: past the deadline it loads once more and
\* returns, before it the backend's bounded wait gets the remaining budget.
api_clock(t) ==
    /\ pc[t] = "clock"
    /\ IF deadline_reached(now, deadline[t])
       THEN /\ pc' = [pc EXCEPT ![t] = "reload"]
            /\ UNCHANGED timeout_ms
       ELSE /\ pc' = [pc EXCEPT ![t] = "call"]
            /\ timeout_ms' = [timeout_ms EXCEPT ![t] = deadline[t] - now]
    /\ UNCHANGED <<mem, bucketVars, notifierVars, now, api, storage_ptr, old, val,
                   deadline, wakeAt, cause, status>>
    /\ UNCHANGED futex

\* The load after the budget has elapsed decides the status.
api_reload(t) ==
    /\ pc[t] = "reload"
    /\ val' = [val EXCEPT ![t] = mem[storage_ptr[t]]]
    /\ pc' = [pc EXCEPT ![t] = "done"]
    /\ status' = [status EXCEPT ![t] =
                      IF value_differs(mem[storage_ptr[t]], old[t])
                      THEN "ok" ELSE "timeout"]
    /\ UNCHANGED <<mem, bucketVars, notifierVars, now, api, storage_ptr, old,
                   deadline, timeout_ms, wakeAt, cause>>
    /\ UNCHANGED futex

\* The caller takes the result; the thread is free for its next call.
api_return(t) ==
    /\ pc[t] = "done"
    /\ pc' = [pc EXCEPT ![t] = "idle"]
    /\ api' = [api EXCEPT ![t] = "none"]
    /\ storage_ptr' = [storage_ptr EXCEPT ![t] = Null]
    /\ old' = [old EXCEPT ![t] = 0]
    /\ val' = [val EXCEPT ![t] = 0]
    /\ deadline' = [deadline EXCEPT ![t] = 0]
    /\ status' = [status EXCEPT ![t] = "none"]
    /\ UNCHANGED <<mem, bucketVars, notifierVars, now, timeout_ms, wakeAt, cause>>
    /\ UNCHANGED futex

\* ------------------------------------- atomic_wait_table::wait, both overloads
\* wait's entry without the lock of the bucket's mutex.
wait_enter_unlocked(t) ==
    LET b == get_bucket_for(storage_ptr[t])
        H == scoped_wait_context(Heap, b, t)
    IN /\ pc[t] = "call"
       /\ head' = H.head
       /\ next' = H.next
       /\ prev' = H.prev
       /\ pc' = [pc EXCEPT ![t] = "check"]
       /\ UNCHANGED <<mem, lock, notifierVars, now, api, storage_ptr, old, val,
                      deadline, timeout_ms, wakeAt, cause, status>>
       /\ UNCHANGED futex

\* The bucket's mutex is locked and the scoped context constructed.
wait_enter(t) ==
    LET b == get_bucket_for(storage_ptr[t])
        H == scoped_wait_context(Heap, b, t)
    IN /\ pc[t] = "call"
       /\ lock[b] = NoThread
       /\ lock' = [lock EXCEPT ![b] = t]
       /\ head' = H.head
       /\ next' = H.next
       /\ prev' = H.prev
       /\ pc' = [pc EXCEPT ![t] = "check"]
       /\ UNCHANGED <<mem, notifierVars, now, api, storage_ptr, old, val, deadline,
                      timeout_ms, wakeAt, cause, status>>
       /\ UNCHANGED futex

\* The memcmp under the mutex: on a difference the call returns (the context
\* is destroyed, then the mutex released), else it goes on to block.
wait_check(t) ==
    LET b == get_bucket_for(storage_ptr[t])
        H == destroy_wait_context(Heap, b, t)
    IN /\ pc[t] = "check"
       /\ IF memcmp(mem[storage_ptr[t]], old[t]) # 0
          THEN /\ head' = H.head
               /\ next' = H.next
               /\ prev' = H.prev
               /\ lock' = [lock EXCEPT ![b] = NoThread]
               /\ pc' = [pc EXCEPT ![t] = "load"]
               /\ timeout_ms' = [timeout_ms EXCEPT ![t] = 0]
          ELSE /\ pc' = [pc EXCEPT ![t] = "block"]
               /\ UNCHANGED <<bucketVars, timeout_ms>>
       /\ UNCHANGED <<mem, notifierVars, now, api, storage_ptr, old, val, deadline,
                      wakeAt, cause, status>>
       /\ UNCHANGED futex

\* The thread blocks without releasing the mutex (a wait on another lock
\* object than the bucket's).
wait_block_keep_lock(t) ==
    /\ pc[t] = "block"
    /\ pc' = [pc EXCEPT ![t] = "asleep"]
    /\ wakeAt' = [wakeAt EXCEPT ![t] =
                      IF api[t] = "wait_for" THEN now + timeout_ms[t] ELSE 0]
    /\ UNCHANGED <<mem, bucketVars, notifierVars, now, api, storage_ptr,
                   old, val, deadline, timeout_ms, cause, status>>
    /\ UNCHANGED futex

\* context.cv.wait(lock) / context.cv.wait_for(lock, timeout_ms): the mutex is
\* released and the thread blocks, as one step.
wait_block(t) ==
    LET b == get_bucket_for(storage_ptr[t])
    IN /\ pc[t] = "block"
       /\ lock' = [lock EXCEPT ![b] = NoThread]
       /\ pc' = [pc EXCEPT ![t] = "asleep"]
       /\ wakeAt' = [wakeAt EXCEPT ![t] =
                         IF api[t] = "wait_for" THEN now + timeout_ms[t] ELSE 0]
       /\ UNCHANGED <<mem, head, next, prev, notifierVars, now, api, storage_ptr,
                      old, val, deadline, timeout_ms, cause, status>>
       /\ UNCHANGED futex

\* A condition variable may wake its waiter with no notify.
cv_spurious(t) ==
    /\ pc[t] = "asleep"
    /\ pc' = [pc EXCEPT ![t] = "woken"]
    /\ cause' = [cause EXCEPT ![t] = "spurious"]
    /\ UNCHANGED <<mem, bucketVars, notifierVars, now, api, storage_ptr, old, val,
                   deadline, timeout_ms, wakeAt, status>>
    /\ UNCHANGED futex

\* The bounded wait calling cv.wait(lock): no timeout ever ends the sleep.
cv_timeout_never(t) ==
    /\ FALSE
    /\ UNCHANGED vars

\* cv.wait_for's timeout elapses.
cv_timeout(t) ==
    /\ pc[t] = "asleep"
    /\ api[t] = "wait_for"
    /\ now >= wakeAt[t]
    /\ pc' = [pc EXCEPT ![t] = "woken"]
    /\ cause' = [cause EXCEPT ![t] = "timeout"]
    /\ UNCHANGED <<mem, bucketVars, notifierVars, now, api, storage_ptr, old, val,
                   deadline, timeout_ms, wakeAt, status>>
    /\ UNCHANGED futex

\* The wait written with a predicate, "cv.wait(lock, [&] { return memcmp(...)
\* != 0; })": a woken thread that finds the value unchanged sleeps again.
wait_exit_recheck(t) ==
    LET b == get_bucket_for(storage_ptr[t])
        H == destroy_wait_context(Heap, b, t)
    IN /\ pc[t] = "woken"
       /\ lock[b] = NoThread
       /\ IF memcmp(mem[storage_ptr[t]], old[t]) # 0
          THEN /\ head' = H.head
               /\ next' = H.next
               /\ prev' = H.prev
               /\ pc' = [pc EXCEPT ![t] = "load"]
               /\ timeout_ms' = [timeout_ms EXCEPT ![t] = 0]
               /\ wakeAt' = [wakeAt EXCEPT ![t] = 0]
          ELSE /\ pc' = [pc EXCEPT ![t] = "asleep"]
               /\ UNCHANGED <<head, next, prev, timeout_ms, wakeAt>>
       /\ cause' = [cause EXCEPT ![t] = "none"]
       /\ UNCHANGED <<mem, lock, notifierVars, now, api, storage_ptr, old, val,
                      deadline, status>>
       /\ UNCHANGED futex

\* The woken thread reacquires the mutex, cv.wait returns, the call returns:
\* the context is destroyed and the mutex released.
wait_exit(t) ==
    LET b == get_bucket_for(storage_ptr[t])
        H == destroy_wait_context(Heap, b, t)
    IN /\ pc[t] = "woken"
       /\ lock[b] = NoThread
       /\ head' = H.head
       /\ next' = H.next
       /\ prev' = H.prev
       /\ pc' = [pc EXCEPT ![t] = "load"]
       /\ cause' = [cause EXCEPT ![t] = "none"]
       /\ timeout_ms' = [timeout_ms EXCEPT ![t] = 0]
       /\ wakeAt' = [wakeAt EXCEPT ![t] = 0]
       /\ UNCHANGED <<mem, lock, notifierVars, now, api, storage_ptr, old, val,
                      deadline, status>>
       /\ UNCHANGED futex

\* ------------------------------------------- failures inside the four calls
\* atomic_wait_native / atomic_wait_for_native: an exception thrown before the
\* context is linked (the table's construction, mutex.lock(), the context's
\* condition variable) unwinds to catch (...) and the call returns; the
\* unique_lock, if it was constructed, is released by its destructor.  cause
\* keeps the failure until the caller's next load.
wait_enter_throw(t) ==
    /\ pc[t] = "call"
    /\ pc' = [pc EXCEPT ![t] = "load"]
    /\ cause' = [cause EXCEPT ![t] = "failed"]
    /\ timeout_ms' = [timeout_ms EXCEPT ![t] = 0]
    /\ UNCHANGED <<mem, bucketVars, notifierVars, now, api, storage_ptr, old, val,
                   deadline, wakeAt, status>>
    /\ UNCHANGED futex

\* The stack unwound with no destructor run: neither the context unlinked
\* nor the mutex released.
wait_block_throw_leak(t) ==
    /\ pc[t] = "block"
    /\ pc' = [pc EXCEPT ![t] = "load"]
    /\ cause' = [cause EXCEPT ![t] = "failed"]
    /\ timeout_ms' = [timeout_ms EXCEPT ![t] = 0]
    /\ UNCHANGED <<mem, bucketVars, notifierVars, now, api, storage_ptr, old, val,
                   deadline, wakeAt, status>>
    /\ UNCHANGED futex

\* An exception thrown by cv.wait / cv.wait_for with the mutex held: the
\* unwinding runs ~scoped_wait_context, then ~unique_lock, then catch (...)
\* swallows it and the call returns.
wait_block_throw(t) ==
    LET b == get_bucket_for(storage_ptr[t])
        H == destroy_wait_context(Heap, b, t)
    IN /\ pc[t] = "block"
       /\ head' = H.head
       /\ next' = H.next
       /\ prev' = H.prev
       /\ lock' = [lock EXCEPT ![b] = NoThread]
       /\ pc' = [pc EXCEPT ![t] = "load"]
       /\ cause' = [cause EXCEPT ![t] = "failed"]
       /\ timeout_ms' = [timeout_ms EXCEPT ![t] = 0]
       /\ UNCHANGED <<mem, notifierVars, now, api, storage_ptr, old, val, deadline,
                      wakeAt, status>>
       /\ UNCHANGED futex

\* atomic_notify_one_native / atomic_notify_all_native: mutex.lock() throws,
\* catch (...) swallows it, and the notify has done nothing.
notify_throw(n) ==
    /\ npc[n] = "idle"
    /\ UNCHANGED vars

\* ------------------------------- atomic_wait_table::notify_one / notify_all
\* The bucket's mutex is locked.
notify_enter(n, k, a) ==
    LET b == get_bucket_for(a)
    IN /\ npc[n] = "idle"
       /\ lock[b] = NoThread
       /\ lock' = [lock EXCEPT ![b] = n]
       /\ npc' = [npc EXCEPT ![n] = "scan"]
       /\ nkind' = [nkind EXCEPT ![n] = k]
       /\ naddr' = [naddr EXCEPT ![n] = a]
       /\ UNCHANGED <<mem, head, next, prev, waiterVars, now>>
       /\ UNCHANGED futex

\* cursor->cv.notify_all() on each context of the set: a thread blocked on
\* the condition variable is woken, any other is not affected.
cv_notify_all(cs) ==
    /\ pc' = [t \in Waiters |->
                 IF t \in cs /\ pc[t] = "asleep" THEN "woken" ELSE pc[t]]
    /\ cause' = [t \in Waiters |->
                    IF t \in cs /\ pc[t] = "asleep"
                    THEN IF mem[storage_ptr[t]] # old[t] THEN "notify" ELSE "stale"
                    ELSE cause[t]]

\* A scan that also unlinks a context it notified.
notify_scan_unlink(n) ==
    LET b == get_bucket_for(naddr[n])
        cs == IF nkind[n] = "one"
              THEN notify_one_targets(b, naddr[n])
              ELSE notify_all_targets(b, naddr[n])
        H == IF cs = {} THEN Heap
             ELSE remove_wait_ctx(Heap, b, CHOOSE c \in cs : TRUE)
    IN /\ npc[n] = "scan"
       /\ cv_notify_all(cs)
       /\ head' = H.head
       /\ next' = H.next
       /\ prev' = H.prev
       /\ lock' = [lock EXCEPT ![b] = NoThread]
       /\ npc' = [npc EXCEPT ![n] = "idle"]
       /\ nkind' = [nkind EXCEPT ![n] = "none"]
       /\ naddr' = [naddr EXCEPT ![n] = Null]
       /\ UNCHANGED <<mem, now, api, storage_ptr, old, val, deadline, timeout_ms,
                      wakeAt, status>>
       /\ UNCHANGED futex

\* The scan of the list, the notifications, and the release of the mutex.
notify_scan(n) ==
    LET b == get_bucket_for(naddr[n])
    IN /\ npc[n] = "scan"
       /\ cv_notify_all(IF nkind[n] = "one"
                        THEN notify_one_targets(b, naddr[n])
                        ELSE notify_all_targets(b, naddr[n]))
       /\ lock' = [lock EXCEPT ![b] = NoThread]
       /\ npc' = [npc EXCEPT ![n] = "idle"]
       /\ nkind' = [nkind EXCEPT ![n] = "none"]
       /\ naddr' = [naddr EXCEPT ![n] = Null]
       /\ UNCHANGED <<mem, head, next, prev, now, api, storage_ptr, old, val,
                      deadline, timeout_ms, wakeAt, status>>
       /\ UNCHANGED futex

\* ------------------------------------------------------- the environment
\* Some thread stores a new value into a watched word.
Store(a, v) ==
    /\ mem[a] # v
    /\ mem' = [mem EXCEPT ![a] = v]
    /\ UNCHANGED <<bucketVars, waiterVars, notifierVars, now>>
    /\ UNCHANGED futex

\* Time passes; the clock stops once nothing waits for it.
Tick ==
    /\ \/ now < MaxTime
       \/ \E t \in Waiters : pc[t] = "asleep" /\ api[t] = "wait_for" /\ wakeAt[t] > now
    /\ now' = now + 1
    /\ UNCHANGED <<mem, bucketVars, waiterVars, notifierVars>>
    /\ UNCHANGED futex

\* The steps of a call in progress that both typed calls take.
WaitSteps(t) ==
    \/ api_load(t)
    \/ api_return(t)
    \/ wait_enter(t)
    \/ wait_check(t)
    \/ wait_block(t)
    \/ cv_spurious(t)
    \/ wait_exit(t)
    \/ wait_enter_throw(t)
    \/ wait_block_throw(t)

\* The steps only atomic_wait_for takes.
TimedSteps(t) ==
    \/ api_clock(t)
    \/ api_reload(t)
    \/ cv_timeout(t)

NotifierStep(n, As) ==
    \/ \E k \in {"one", "all"}, a \in As : notify_enter(n, k, a)
    \/ notify_scan(n)
    \/ notify_throw(n)

Next ==
    \/ \E t \in Waiters, a \in Addrs, o \in Expected : atomic_wait(t, a, o)
    \/ \E t \in Waiters, a \in Addrs, o \in Expected, ms \in 0..MaxTimeout :
           atomic_wait_for(t, a, o, ms)
    \/ \E t \in Waiters : WaitSteps(t)
    \/ \E t \in Waiters : TimedSteps(t)
    \/ \E n \in Notifiers : NotifierStep(n, Addrs)
    \/ \E a \in Addrs, v \in Values : Store(a, v)
    \/ Tick

Spec == Init /\ [][Next]_vars

\* ------------------------------------------------------------- fairness
\* Fair scheduling: a thread that can take a step of its call takes it, and
\* a thread that waits for a mutex that is free again and again gets it.  No
\* fairness is asked of the callers (they need not call), of the stores, of
\* spurious wakes or of the clock.
Fairness ==
    /\ \A t \in Waiters :
           /\ WF_vars(api_load(t) \/ api_clock(t) \/ api_reload(t))
           /\ WF_vars(wait_check(t) \/ wait_block(t))
           /\ SF_vars(wait_enter(t))
           /\ SF_vars(wait_exit(t))
    /\ \A n \in Notifiers : WF_vars(notify_scan(n))

\* The words of the bucket two of the words share.
SharedBucket == {a \in Addrs : get_bucket_for(a) = get_bucket_for(4)}

\* atomic_wait alone, on the words that share a bucket, under fair scheduling.
LiveNext ==
    \/ \E t \in Waiters, a \in SharedBucket, o \in Expected : atomic_wait(t, a, o)
    \/ \E t \in Waiters : WaitSteps(t)
    \/ \E n \in Notifiers : NotifierStep(n, SharedBucket)
    \/ \E a \in SharedBucket, v \in Values : Store(a, v)

LiveSpec == Init /\ [][LiveNext]_vars /\ Fairness

\* Both typed calls on one word, with the clock, under fair scheduling.
TimedNext ==
    \/ \E t \in Waiters, o \in Expected : atomic_wait(t, 4, o)
    \/ \E t \in Waiters, o \in Expected, ms \in 0..MaxTimeout :
           atomic_wait_for(t, 4, o, ms)
    \/ \E t \in Waiters : WaitSteps(t)
    \/ \E t \in Waiters : TimedSteps(t)
    \/ \E n \in Notifiers : NotifierStep(n, {4})
    \/ \E v \in Values : Store(4, v)
    \/ Tick

TimedLiveSpec == Init /\ [][TimedNext]_vars /\ Fairness

\* The clock advances, and a bounded condition-variable wait whose time has
\* come ends.
ClockFairness ==
    /\ WF_vars(Tick)
    /\ \A t \in Waiters : WF_vars(cv_timeout(t))

\* Both typed calls on one word under fair scheduling and a running clock.
ClockLiveSpec == Init /\ [][TimedNext]_vars /\ Fairness /\ ClockFairness

\* Two words of different buckets.
TwoBuckets == {4, 8}

\* atomic_wait and the notifies on two buckets, under fair scheduling.
BucketNext ==
    \/ \E t \in Waiters, a \in TwoBuckets, o \in Expected : atomic_wait(t, a, o)
    \/ \E t \in Waiters : WaitSteps(t)
    \/ \E n \in Notifiers : NotifierStep(n, TwoBuckets)
    \/ \E a \in TwoBuckets, v \in Values : Store(a, v)

BucketLiveSpec == Init /\ [][BucketNext]_vars /\ Fairness

\* ------------------------------------------------------------ the claims
\* ------------------------------------------------------------ the claims
bucket_of(t) == get_bucket_for(storage_ptr[t])

\* The waiters of address a that are blocked on their condition variable.
Asleep(a) == {t \in Waiters : storage_ptr[t] = a /\ pc[t] = "asleep"}

\* The contexts registered for address a.
Registered(a) == {t \in Linked(get_bucket_for(a)) : storage_ptr[t] = a}

\* A step in which notifier n finishes a scan of kind k.
ScanStep(n, k) == npc[n] = "scan" /\ nkind[n] = k /\ npc'[n] = "idle"

\* C1: no lost notify.  A waiter at its value check or between the check and
\* its sleep holds the mutex of its bucket and is linked there, and a waiter
\* that found the value equal and has not returned (asleep, or woken and not
\* yet unlinked) is linked in the bucket of its address; so a notifier, which
\* scans under the same mutex, never meets a waiter past its check that is
\* missing from the list.
C1_NoLostNotify ==
    \A t \in Waiters :
        /\ pc[t] \in {"check", "block"} =>
               lock[bucket_of(t)] = t /\ t \in Linked(bucket_of(t))
        /\ pc[t] \in {"asleep", "woken"} => t \in Linked(bucket_of(t))
        /\ \A n \in Notifiers :
               (npc[n] = "scan" /\ storage_ptr[t] = naddr[n]) =>
                   \/ pc[t] \in {"load", "clock", "reload", "call", "done"}
                   \/ t \in Registered(naddr[n])

\* A notifier scans, after a store of a different value, a list that holds
\* the context of a sleeping waiter of its address.
C1_Witness ==
    \E n \in Notifiers, t \in Waiters :
        /\ npc[n] = "scan"
        /\ pc[t] = "asleep"
        /\ storage_ptr[t] = naddr[n]
        /\ mem[naddr[n]] # old[t]
        /\ t \in Registered(naddr[n])

\* C2: cumulative notify_one.  With the value changed and every context of
\* the address either asleep or woken by an earlier notify that followed the
\* change, a notify_one on the address wakes exactly one more of its sleeping
\* threads.
C2_CumulativeNotifyOne ==
    [][\A n \in Notifiers :
           (/\ ScanStep(n, "one")
            /\ Asleep(naddr[n]) # {}
            /\ \A t \in Registered(naddr[n]) :
                   /\ api[t] = "wait"
                   /\ mem[naddr[n]] # old[t]
                   /\ pc[t] = "asleep" \/ (pc[t] = "woken" /\ cause[t] = "notify"))
           => Cardinality({t \in Asleep(naddr[n]) : pc'[t] = "woken"}) = 1]_vars

\* C3: notify_one wakes at least one of the threads blocked on its address
\* whenever there is one, also when contexts of woken threads are still linked.
C3_NotifyOneWakesBlocked ==
    [][\A n \in Notifiers :
           (ScanStep(n, "one") /\ Asleep(naddr[n]) # {})
           => \E t \in Asleep(naddr[n]) : pc'[t] = "woken"]_vars

\* C5: bucket collision isolation.  A notify on one address changes nothing
\* of a waiter of another address, whether or not they share a bucket.
C5_CollisionIsolation ==
    [][\A n \in Notifiers, t \in Waiters :
           (/\ npc[n] = "scan"
            /\ npc'[n] = "idle"
            /\ storage_ptr[t] # naddr[n])
           => pc'[t] = pc[t] /\ cause'[t] = cause[t]]_vars

\* A waiter sleeps on one address while a notifier scans their shared bucket
\* for the other, whose context is in the list too.
C5_Witness ==
    \E n \in Notifiers, t \in Waiters, u \in Waiters :
        /\ npc[n] = "scan"
        /\ pc[t] = "asleep"
        /\ storage_ptr[t] # naddr[n]
        /\ bucket_of(t) = get_bucket_for(naddr[n])
        /\ pc[u] = "asleep"
        /\ storage_ptr[u] = naddr[n]
        /\ head[bucket_of(t)] = t

\* C6: no false completion.  atomic_wait has returned only if the value it
\* loaded last differs from the expected one, whatever notifies and spurious
\* wakes came before.
C6_NoFalseCompletion ==
    \A t \in Waiters :
        (api[t] = "wait" /\ pc[t] = "done") => val[t] # old[t]

\* A notify has ended the backend's wait of an atomic_wait whose value still
\* equals the expected one.
C6_Witness ==
    \E t \in Waiters :
        /\ api[t] = "wait"
        /\ pc[t] = "woken"
        /\ cause[t] = "stale"
        /\ mem[storage_ptr[t]] = old[t]

\* C8: immediate return.  When the check under the mutex finds the bytes
\* different, the call returns to its caller in that step: it never blocks,
\* its context is unlinked and the mutex is free again.
C8_ImmediateReturn ==
    [][\A t \in Waiters :
           (/\ pc[t] = "check"
            /\ mem[storage_ptr[t]] # old[t]
            /\ pc'[t] # "check")
           => /\ pc'[t] = "load"
              /\ t \notin Linked(bucket_of(t))'
              /\ lock'[bucket_of(t)] = NoThread]_vars

\* A waiter at its check under the mutex, the value already different, and
\* another context behind its own in the list.
C8_Witness ==
    \E t \in Waiters :
        /\ pc[t] = "check"
        /\ mem[storage_ptr[t]] # old[t]
        /\ head[bucket_of(t)] = t
        /\ next[t] # Null

\* C9: atomic_wait_for has returned timeout only with the clock at or past
\* its deadline (the call's start plus the timeout) and the value it loaded
\* last equal to the expected one.
C9_TimeoutOnlyAfterBudget ==
    \A t \in Waiters :
        (api[t] = "wait_for" /\ pc[t] = "done" /\ status[t] = "timeout")
        => now >= deadline[t] /\ val[t] = old[t]

\* atomic_wait_for has returned timeout, its deadline later than its start.
C9_Witness ==
    \E t \in Waiters :
        /\ api[t] = "wait_for"
        /\ pc[t] = "done"
        /\ status[t] = "timeout"
        /\ deadline[t] > 0


\* Thread t is in a call of kind k.
InCall(t, k) == api[t] = k /\ pc[t] \notin {"idle", "done"}

\* The value of t's cell differs from the one t expects.
Changed(t) == pc[t] # "idle" /\ mem[storage_ptr[t]] # old[t]

\* No context but t's is registered for t's address.
Single(t) == Registered(storage_ptr[t]) \subseteq {t}

\* Some notifier is in a notify of kind k on address a, the mutex taken.
Notifying(k, a) ==
    \E n \in Notifiers : npc[n] = "scan" /\ nkind[n] = k /\ naddr[n] = a

\* C7: termination on real change.  A single thread in atomic_wait on a cell
\* whose value differs from the expected one when a notify_one or notify_all
\* on the cell runs returns eventually, unless the value is changed back.
C7_TerminationOnChange ==
    \A t \in Waiters :
        (/\ InCall(t, "wait")
         /\ Changed(t)
         /\ Single(t)
         /\ Notifying("one", storage_ptr[t]) \/ Notifying("all", storage_ptr[t]))
        ~> ((pc[t] = "done" /\ status[t] = "returned") \/ ~Changed(t))

\* A notify runs after the store while the single waiter is asleep.
C7_Witness ==
    \E t \in Waiters :
        /\ InCall(t, "wait")
        /\ pc[t] = "asleep"
        /\ Changed(t)
        /\ Single(t)
        /\ Notifying("one", storage_ptr[t])


\* C4: notify_all wakes everyone.  A notify_all leaves no context registered
\* for its address asleep, and every thread that was blocked in atomic_wait
\* on the address, the value changed, returns eventually after a notify_all,
\* unless the value is changed back.
C4_NotifyAllWakesAll ==
    /\ [][\A n \in Notifiers :
              ScanStep(n, "all")
              => \A t \in Registered(naddr[n]) : pc'[t] # "asleep"]_vars
    /\ \A t \in Waiters :
           (/\ InCall(t, "wait")
            /\ pc[t] = "asleep"
            /\ Changed(t)
            /\ Notifying("all", storage_ptr[t]))
           ~> ((pc[t] = "done" /\ status[t] = "returned") \/ ~Changed(t))

\* A notify_all runs with every waiter asleep on its address and the value
\* changed.
C4_Witness ==
    \E a \in Addrs :
        /\ Notifying("all", a)
        /\ \A t \in Waiters : InCall(t, "wait") /\ pc[t] = "asleep"
                              /\ storage_ptr[t] = a /\ Changed(t)

\* C10: atomic_wait_for returns ok exactly when the load it returns on
\* yields a value different from the expected one, at the deadline as before
\* it; and a single waiter whose value is changed and notified before the
\* deadline returns ok with no further tick of the clock needed, unless the
\* value is changed back.
C10_OkOnChange ==
    /\ [][\A t \in Waiters :
              (api[t] = "wait_for" /\ pc[t] # "done" /\ pc'[t] = "done")
              => (status'[t] = "ok" <=> mem[storage_ptr[t]] # old[t])]_vars
    /\ \A t \in Waiters :
           (/\ InCall(t, "wait_for")
            /\ Changed(t)
            /\ Single(t)
            /\ Notifying("one", storage_ptr[t])
            /\ now < deadline[t])
           ~> ((pc[t] = "done" /\ status[t] = "ok") \/ ~Changed(t))

\* atomic_wait_for is about to load, its deadline reached and the value
\* changed while its bounded wait was in progress.
C10_Witness ==
    \E t \in Waiters :
        /\ api[t] = "wait_for"
        /\ pc[t] = "reload"
        /\ deadline[t] > 0
        /\ Changed(t)

C12_FailuresSwallowed ==
    /\ [](\A t \in Waiters :
              cause[t] = "failed"
              => /\ pc[t] = "load"
                 /\ status[t] = "none"
                 /\ next[t] = Null /\ prev[t] = Null
                 /\ \A b \in Buckets : lock[b] # t /\ t \notin Linked(b))
    /\ [][\A t \in Waiters :
              (cause'[t] = "failed" /\ cause[t] # "failed")
              => /\ \A b \in Buckets :
                        /\ Cursors(b)' = SelectSeq(Cursors(b), LAMBDA c : c # t)
                        /\ lock'[b] \in {lock[b], NoThread}
                 /\ mem' = mem
                 /\ notifierVars' = notifierVars]_vars

\* A wait call has failed while another thread sleeps in the same bucket.
C12_Witness ==
    \E t \in Waiters, u \in Waiters :
        /\ cause[t] = "failed"
        /\ u # t
        /\ pc[u] = "asleep"
        /\ bucket_of(u) = bucket_of(t)

\* Thread t is in a backend wait call past the registration of its context.
PastRegistration(t) == pc[t] \in {"check", "block", "asleep", "woken"}

\* C13: scoped registration.  The contexts linked in a bucket are exactly
\* those of the wait calls past their registration whose address hashes to
\* the bucket, each of them once in the list; a thread outside such a call is
\* reachable from no bucket; and a context is linked or unlinked only in steps
\* around which no other thread holds the bucket's mutex.
C13_ScopedRegistration ==
    /\ [](\A b \in Buckets :
              LET cs == Cursors(b)
              IN /\ {cs[i] : i \in 1..Len(cs)}
                        = {t \in Waiters : PastRegistration(t) /\ bucket_of(t) = b}
                 /\ \A i, j \in 1..Len(cs) : i # j => cs[i] # cs[j])
    /\ [][\A b \in Buckets :
              head'[b] # head[b] \/ next' # next
              => LET before == Linked(b)
                     after == Linked(b)'
                 IN \A t \in Waiters :
                        ((t \in before) # (t \in after))
                        => lock[b] \in {NoThread, t} /\ lock'[b] \in {NoThread, t}]_vars

\* Two calls past registration in different buckets while a third party, a
\* notifier, holds the mutex of one of the buckets.
C13_Witness ==
    \E t \in Waiters, u \in Waiters, n \in Notifiers :
        /\ pc[t] = "asleep"
        /\ pc[u] = "woken"
        /\ bucket_of(t) # bucket_of(u)
        /\ lock[bucket_of(u)] = n

\* ------------------------------------- the futex build's four native calls
\* One thread's calls: each makes its system call and returns before the next.
futex_wait_native(atom, o) ==
    /\ futex = NoCall
    /\ futex' = [call |-> "atomic_wait_native", ms |-> 0, addr |-> atom,
                 op |-> "FUTEX_WAIT_PRIVATE", old |-> o, ts |-> <<>>]
    /\ UNCHANGED <<mem, bucketVars, waiterVars, notifierVars, now>>

futex_wait_for_native(atom, o, ms) ==
    /\ futex = NoCall
    /\ futex' = [call |-> "atomic_wait_for_native", ms |-> ms, addr |-> atom,
                 op |-> "FUTEX_WAIT_PRIVATE", old |-> o,
                 ts |-> <<ms_to_time_spec(ms)>>]
    /\ UNCHANGED <<mem, bucketVars, waiterVars, notifierVars, now>>

futex_notify_one_native(atom) ==
    /\ futex = NoCall
    /\ futex' = [call |-> "atomic_notify_one_native", ms |-> 0, addr |-> atom,
                 op |-> "FUTEX_WAKE_PRIVATE", old |-> 1, ts |-> <<>>]
    /\ UNCHANGED <<mem, bucketVars, waiterVars, notifierVars, now>>

futex_notify_all_native(atom) ==
    /\ futex = NoCall
    /\ futex' = [call |-> "atomic_notify_all_native", ms |-> 0, addr |-> atom,
                 op |-> "FUTEX_WAKE_PRIVATE", old |-> INT_MAX, ts |-> <<>>]
    /\ UNCHANGED <<mem, bucketVars, waiterVars, notifierVars, now>>

\* The system call returns, and with it the native call.
futex_return ==
    /\ futex # NoCall
    /\ futex' = NoCall
    /\ UNCHANGED <<mem, bucketVars, waiterVars, notifierVars, now>>

FutexNext ==
    \/ \E a \in Addrs, o \in Values : futex_wait_native(a, o)
    \/ \E a \in Addrs, o \in Values, ms \in 0..MaxMs : futex_wait_for_native(a, o, ms)
    \/ \E a \in Addrs : futex_notify_one_native(a)
    \/ \E a \in Addrs : futex_notify_all_native(a)
    \/ futex_return

FutexSpec == Init /\ [][FutexNext]_vars

\* C20: the millisecond conversion is exact.  The timespec a bounded futex
\* wait was given for ms milliseconds has tv_sec = ms div 1000 and tv_nsec =
\* (ms mod 1000) * 1,000,000 with 0 <= tv_nsec < 1,000,000,000, and converts
\* back to ms; an unbounded wait and the wakes pass no timespec; the wake
\* count is 1 for notify-one and INT_MAX for notify-all.
C20_ExactConversion ==
    /\ futex.call = "atomic_wait_for_native"
       => /\ futex.op = "FUTEX_WAIT_PRIVATE"
          /\ Len(futex.ts) = 1
          /\ futex.ts[1].tv_sec = futex.ms \div 1000
          /\ futex.ts[1].tv_nsec = (futex.ms % 1000) * 1000000
          /\ futex.ts[1].tv_nsec >= 0
          /\ futex.ts[1].tv_nsec < 1000000000
          /\ futex.ts[1].tv_sec * 1000 + futex.ts[1].tv_nsec \div 1000000 = futex.ms
    /\ futex.call = "atomic_wait_native"
       => futex.op = "FUTEX_WAIT_PRIVATE" /\ futex.ts = <<>>
    /\ futex.call = "atomic_notify_one_native"
       => futex.op = "FUTEX_WAKE_PRIVATE" /\ futex.old = 1 /\ futex.ts = <<>>
    /\ futex.call = "atomic_notify_all_native"
       => futex.op = "FUTEX_WAKE_PRIVATE" /\ futex.old = INT_MAX /\ futex.ts = <<>>

\* A bounded futex wait of more than a second with a millisecond remainder.
C20_Witness ==
    /\ futex.call = "atomic_wait_for_native"
    /\ futex.ms > 1000
    /\ futex.ms % 1000 # 0

\* --------------------------------- the list under any pushes and removals
\* The wait contexts of a bucket's list taken by themselves: any context not
\* linked is pushed to the front of the bucket of an address, any linked one is
\* removed, in any order.  storage_ptr[c] is the context's address while it
\* is linked and Null while it does not exist.
Contexts == 1..NumContexts

ListInit ==
    /\ mem = [a \in Addrs |-> 0]
    /\ lock = [b \in Buckets |-> NoThread]
    /\ head = [b \in Buckets |-> Null]
    /\ next = [c \in Contexts |-> Null]
    /\ prev = [c \in Contexts |-> Null]
    /\ storage_ptr = [c \in Contexts |-> Null]
    /\ pc = [t \in Waiters |-> "idle"]
    /\ api = [t \in Waiters |-> "none"]
    /\ old = [t \in Waiters |-> 0]
    /\ val = [t \in Waiters |-> 0]
    /\ deadline = [t \in Waiters |-> 0]
    /\ timeout_ms = [t \in Waiters |-> 0]
    /\ wakeAt = [t \in Waiters |-> 0]
    /\ cause = [t \in Waiters |-> "none"]
    /\ status = [t \in Waiters |-> "none"]
    /\ now = 0
    /\ npc = [n \in Notifiers |-> "idle"]
    /\ nkind = [n \in Notifiers |-> "none"]
    /\ naddr = [n \in Notifiers |-> Null]
    /\ futex = NoCall

\* scoped_wait_context(bucket, address): construction.
list_push(c, a) ==
    LET H == scoped_wait_context(Heap, get_bucket_for(a), c)
    IN /\ storage_ptr[c] = Null
       /\ storage_ptr' = [storage_ptr EXCEPT ![c] = a]
       /\ head' = H.head
       /\ next' = H.next
       /\ prev' = H.prev
       /\ UNCHANGED <<mem, lock, pc, api, old, val, deadline, timeout_ms, wakeAt,
                      cause, status, now, notifierVars, futex>>

\* ~scoped_wait_context.
list_remove(c) ==
    LET H == destroy_wait_context(Heap, get_bucket_for(storage_ptr[c]), c)
    IN /\ storage_ptr[c] # Null
       /\ storage_ptr' = [storage_ptr EXCEPT ![c] = Null]
       /\ head' = H.head
       /\ next' = H.next
       /\ prev' = H.prev
       /\ UNCHANGED <<mem, lock, pc, api, old, val, deadline, timeout_ms, wakeAt,
                      cause, status, now, notifierVars, futex>>

ListNext ==
    \/ \E c \in Contexts, a \in Addrs : list_push(c, a)
    \/ \E c \in Contexts : list_remove(c)

ListSpec == ListInit /\ [][ListNext]_vars

\* Bucket b's list from its head along next.
ListOf(b) == Walk(next, head[b], NumContexts + 1)

\* C14: the list stays well formed.  After any pushes and removals, in every
\* bucket: the walk from head ends at null (no cycle) and meets no context
\* twice; head is null or head.prev is null; n.next.prev = n for every linked
\* n with a successor; the contexts met are exactly the linked ones of the
\* bucket.  A push puts the context in front of the others, and a removal, of
\* the head, a middle or the tail context, leaves the others in their order.
C14_WellFormedList ==
    /\ [](\A b \in Buckets :
              LET cs == ListOf(b)
              IN /\ Len(cs) <= NumContexts
                 /\ \A i, j \in 1..Len(cs) : i # j => cs[i] # cs[j]
                 /\ head[b] # Null => prev[head[b]] = Null
                 /\ \A i \in 1..Len(cs) :
                        /\ next[cs[i]] # Null => prev[next[cs[i]]] = cs[i]
                        /\ i > 1 => prev[cs[i]] = cs[i - 1]
                 /\ {cs[i] : i \in 1..Len(cs)}
                        = {c \in Contexts : /\ storage_ptr[c] # Null
                                            /\ get_bucket_for(storage_ptr[c]) = b})
    /\ [][\A b \in Buckets, c \in Contexts :
              /\ (storage_ptr[c] # Null /\ storage_ptr'[c] = Null)
                 => ListOf(b)' = SelectSeq(ListOf(b), LAMBDA d : d # c)
              /\ (storage_ptr[c] = Null /\ storage_ptr'[c] # Null)
                 => ListOf(b)' = IF get_bucket_for(storage_ptr'[c]) = b
                                 THEN <<c>> \o ListOf(b)
                                 ELSE ListOf(b)]_vars

\* A list of three contexts: its head, its middle and its tail can be removed.
C14_Witness ==
    \E b \in Buckets :
        /\ Len(ListOf(b)) = 3
        /\ prev[ListOf(b)[2]] = ListOf(b)[1]
        /\ next[ListOf(b)[2]] = ListOf(b)[3]

\* The contexts in front of context c in its list, found along prev.
Ahead(c) ==
    LET ps == Walk(prev, prev[c], NumWaiters + 1)
    IN {ps[i] : i \in 1..Len(ps)}

\* The registered contexts of address a with no context of a in front.
FirstMatching(a) ==
    {c \in Waiters : /\ PastRegistration(c)
                     /\ storage_ptr[c] = a
                     /\ \A d \in Ahead(c) : storage_ptr[d] # a}

\* C15: notify_one's choice.  A context is registered at the front of its
\* list, in front of every context registered before it, so the frontmost
\* context of an address is the most recently registered one still linked.
\* There is exactly one such context when the address has a registered
\* context and none otherwise; a notify_one wakes it if it sleeps, and changes
\* the state of no other waiter.
C15_NotifyOneFirstMatch ==
    /\ [](\A a \in Addrs :
              Cardinality(FirstMatching(a))
                  = IF \E c \in Waiters : PastRegistration(c) /\ storage_ptr[c] = a
                    THEN 1 ELSE 0)
    /\ [][/\ \A t \in Waiters :
                 (~PastRegistration(t) /\ PastRegistration(t)')
                 => /\ head'[bucket_of(t)] = t
                    /\ Ahead(t)' = {}
                    /\ \A u \in Waiters \ {t} :
                           (PastRegistration(u) /\ bucket_of(u) = bucket_of(t))
                           => Ahead(u)' = Ahead(u) \cup {t}
          /\ \A n \in Notifiers :
                 ScanStep(n, "one")
                 => /\ \A t \in FirstMatching(naddr[n]) :
                           pc[t] = "asleep" => pc'[t] = "woken"
                    /\ \A t \in Waiters :
                           (pc'[t] # pc[t] \/ cause'[t] # cause[t])
                           => /\ t \in FirstMatching(naddr[n])
                              /\ pc[t] = "asleep"
                              /\ pc'[t] = "woken"]_vars

\* notify_one holds the mutex with two sleeping contexts of its address
\* linked, the one registered later in front.
C15_Witness ==
    \E n \in Notifiers, t \in Waiters, u \in Waiters :
        /\ npc[n] = "scan"
        /\ nkind[n] = "one"
        /\ storage_ptr[t] = naddr[n]
        /\ storage_ptr[u] = naddr[n]
        /\ pc[t] = "asleep"
        /\ pc[u] = "asleep"
        /\ t \in Ahead(u)

\* C16: the fallback wait is single-shot.  A thread leaves its sleep only to
\* the woken state, and a woken thread leaves that state only by returning
\* to its caller's loop, unlinked, whatever the value and the clock are; a
\* thread starts to sleep only from the one check of a call that registered
\* in that call, so a call sleeps at most once.
C16_SingleShot ==
    [][\A t \in Waiters :
           /\ (pc[t] = "asleep" /\ pc'[t] # "asleep") => pc'[t] = "woken"
           /\ (pc[t] = "woken" /\ pc'[t] # "woken")
              => /\ pc'[t] = "load"
                 /\ t \notin Linked(bucket_of(t))'
                 /\ lock'[bucket_of(t)] # t
           /\ (pc'[t] = "asleep" /\ pc[t] # "asleep") => pc[t] = "block"
           /\ (pc'[t] = "block" /\ pc[t] # "block") => pc[t] = "check"
           /\ (pc'[t] = "check" /\ pc[t] # "check") => pc[t] = "call"
           /\ (pc'[t] = "call" /\ pc[t] # "call") => pc[t] \in {"load", "clock"}]_vars

\* A thread woken from a bounded wait with the value still the expected one
\* and its deadline and its wake time not reached, the mutex free.
C16_Witness ==
    \E t \in Waiters :
        /\ api[t] = "wait_for"
        /\ pc[t] = "woken"
        /\ cause[t] \in {"spurious", "stale"}
        /\ mem[storage_ptr[t]] = old[t]
        /\ now < deadline[t]
        /\ now < wakeAt[t]
        /\ lock[bucket_of(t)] = NoThread

\* Thread th holds the mutex of bucket b inside an operation on b: a waiter
\* between its registration and its sleep, or a notifier in its scan.
HoldsInside(th, b) ==
    \/ /\ th \in Waiters
       /\ pc[th] \in {"check", "block"}
       /\ bucket_of(th) = b
    \/ /\ th \in Notifiers
       /\ npc[th] = "scan"
       /\ get_bucket_for(naddr[th]) = b

\* C17: lock discipline and deadlock freedom.  No thread holds two bucket
\* mutexes; a held mutex is held by a thread inside an operation on that very
\* bucket, so a thread that sleeps or has been woken holds none and a bucket
\* with no operation inside it is free whatever happens in other buckets; a
\* bucket's list changes only in steps of a thread around which no other
\* thread holds the bucket's mutex; and under fair scheduling every held
\* mutex is released again and every notify that has its mutex finishes,
\* also while threads sleep in its bucket.
C17_LockDiscipline ==
    /\ [](\A b \in Buckets :
              /\ lock[b] # NoThread => HoldsInside(lock[b], b)
              /\ \A c \in Buckets : (lock[b] # NoThread /\ lock[c] = lock[b]) => c = b
              /\ \A t \in Waiters :
                     (pc[t] \in {"asleep", "woken"} /\ bucket_of(t) = b) => lock[b] # t)
    /\ [][\A b \in Buckets :
              Cursors(b)' # Cursors(b)
              => \E t \in Waiters :
                     /\ pc'[t] # pc[t]
                     /\ lock[b] \in {NoThread, t}
                     /\ lock'[b] \in {NoThread, t}]_vars
    /\ \A b \in Buckets : (lock[b] # NoThread) ~> (lock[b] = NoThread)
    /\ \A n \in Notifiers : (npc[n] = "scan") ~> (npc[n] = "idle")

\* A notify scans one bucket in which a thread sleeps while a waiter is
\* inside the other bucket, holding its mutex.
C17_Witness ==
    \E n \in Notifiers, t \in Waiters, u \in Waiters :
        /\ npc[n] = "scan"
        /\ pc[t] = "asleep"
        /\ bucket_of(t) = get_bucket_for(naddr[n])
        /\ pc[u] = "block"
        /\ bucket_of(u) # bucket_of(t)
        /\ lock[bucket_of(u)] = u
        /\ lock[bucket_of(t)] = n

\* C18: a notify changes no registry state.  A step of a notify (taking the
\* mutex, or scanning and releasing it) leaves every list, every context's
\* links and address, and every watched word as they were; a scan that finds
\* no registered context of its address changes no waiter at all; and a
\* notify is not remembered: a thread is woken by a notify only in a scan
\* step taken while it sleeps, and a wait call that registers after a notify
\* and finds the value unchanged goes on to block.
C18_NotifyFrame ==
    [][/\ \A n \in Notifiers :
              npc'[n] # npc[n]
              => /\ head' = head /\ next' = next /\ prev' = prev
                 /\ \A b \in Buckets : Cursors(b)' = Cursors(b)
                 /\ mem' = mem
                 /\ storage_ptr' = storage_ptr
                 /\ (\A t \in Waiters :
                         ~(PastRegistration(t) /\ storage_ptr[t] = naddr[n]))
                    => waiterVars' = waiterVars
       /\ \A t \in Waiters :
              /\ (cause'[t] \in {"notify", "stale"} /\ cause'[t] # cause[t])
                 => /\ pc[t] = "asleep"
                    /\ \E n \in Notifiers :
                           npc[n] = "scan" /\ npc'[n] = "idle"
              /\ (pc[t] = "check" /\ pc'[t] # "check"
                      /\ mem[storage_ptr[t]] = old[t])
                 => pc'[t] = "block" /\ cause'[t] = "none"
              /\ (pc[t] = "block" /\ pc'[t] = "asleep") => cause'[t] = "none"]_vars

\* A notify scans for an address that has no registered context while a
\* thread is about to register for that address, the value unchanged.
C18_Witness ==
    \E n \in Notifiers, t \in Waiters :
        /\ npc[n] = "scan"
        /\ pc[t] = "call"
        /\ storage_ptr[t] = naddr[n]
        /\ mem[storage_ptr[t]] = old[t]
        /\ \A u \in Waiters : ~(PastRegistration(u) /\ storage_ptr[u] = naddr[n])

\* C19: atomic_wait_for always terminates.  With the clock running, every
\* atomic_wait_for call in progress returns, whatever notifies, stores,
\* spurious wakes and failures occur meanwhile; it returns ok only having
\* loaded a value different from the expected one, and otherwise timeout with
\* the clock at or past its deadline, so a call during which the value never
\* changes returns timeout.
C19_TimedWaitTerminates ==
    \A t \in Waiters :
        InCall(t, "wait_for")
        ~> /\ pc[t] = "done"
           /\ status[t] \in {"ok", "timeout"}
           /\ status[t] = "ok" => val[t] # old[t]
           /\ status[t] = "timeout" => val[t] = old[t] /\ now >= deadline[t]

\* The timeout of a bounded condition-variable wait has woken its thread,
\* the value unchanged and no notify in progress.
C19_Witness ==
    \E t \in Waiters :
        /\ api[t] = "wait_for"
        /\ pc[t] = "woken"
        /\ cause[t] = "timeout"
        /\ mem[storage_ptr[t]] = old[t]
        /\ \A n \in Notifiers : npc[n] = "idle"

============================================================================
